---- MODULE Spec2Model ----
(***************************************************************************)
(* The UploadAndTranscribe HTTP handler of the STT site, in its two        *)
(* revisions: api/function_app.py (normalise, upload under a uuid name,    *)
(* submit, bounded poll, enrich) and api/app.py (upload under the client's *)
(* filename, submit, unbounded poll).  Every network call is one step; the *)
(* remote services' answers are nondeterministic inputs.                   *)
(***************************************************************************)
EXTENDS Integers, Sequences, FiniteSets, TLC

(* ------------------------------ bounds -------------------------------- *)
NReq == 2              \* requests in flight together (SpecConc)
MaxPhrases == 2        \* recognizedPhrases of a fetched transcript
MaxPolls == 361        \* status polls explored per request (Spec); app.py's loop has no bound of its own
MaxPollsConc == 2      \* status polls explored per request when two requests overlap (SpecConc)

(* ------------------------- program constants -------------------------- *)
maxPollCount == 30           \* while poll_count < 30
pollIntervalSeconds == 10    \* time.sleep(10)
sasExpirySeconds == 3600     \* timedelta(hours=1)

Reqs == 1..NReq
Handlers == {"function_app", "app"}
EnvVars == {"SPEECH_KEY", "SPEECH_REGION", "STORAGE_CONNECTION_STRING",
            "LANGUAGE_KEY", "LANGUAGE_ENDPOINT"}
\* deployments: every variable set, or one of them missing
Environments == {EnvVars} \cup {EnvVars \ {v} : v \in {"SPEECH_KEY", "STORAGE_CONNECTION_STRING", "LANGUAGE_KEY"}}
FileNames == {"a.mp3", "b.mp3"}
UUIDs == {"u1", "u2"}
BlobNames == FileNames \cup UUIDs

NoFile == [present |-> FALSE, filename |-> "", decodable |-> FALSE]
Files == {NoFile}
         \cup {[present |-> TRUE, filename |-> "a.mp3", decodable |-> d] : d \in BOOLEAN}
         \cup {[present |-> TRUE, filename |-> "b.mp3", decodable |-> TRUE]}

(* ------------------------ JSON transcript bodies ----------------------- *)
\* a phrase's nBest: key absent, an empty list, display blank, display text
NBestKinds == {"absent", "empty", "blank", "text"}
Phrases == [nBest : NBestKinds, key_phrases : {"unset"}]
PhraseSeqs == UNION {[1..n -> Phrases] : n \in 0..MaxPhrases}
None == [kind |-> "None", other |-> FALSE, hasPhrases |-> FALSE, phrases |-> <<>>]
\* JSON objects: {} | {other fields} | {"recognizedPhrases": [...]}
Bodies == {[kind |-> "object", other |-> o, hasPhrases |-> FALSE, phrases |-> <<>>] : o \in BOOLEAN}
          \cup {[kind |-> "object", other |-> FALSE, hasPhrases |-> TRUE, phrases |-> ps] : ps \in PhraseSeqs}

\* Python truth value of a fetched body: None and the empty dict are falsy
Truthy(v) == v.kind = "object" /\ (v.other \/ v.hasPhrases)

\* p.get("nBest", [{}])[0].get("display", "") is non-blank
HasText(p) == p.nBest = "text"
\* ... raises IndexError
DisplayRaises(p) == p.nBest = "empty"

(* ------------------------------ messages ------------------------------ *)
MsgConfig == "config error: environment variable missing"
MsgFfmpeg == "server configuration error (FFmpeg)"
MsgNoFile == "no file in request"
MsgAudio == "cannot process audio file"
MsgSpeechApi == "Speech API error: <response.text>"
MsgSttTimeoutOrFailed == "STT job timed out or failed"
A_MsgNoFile == "No file uploaded."
A_MsgTranscriptionError == "Transcription error: <response.text>"
A_MsgFailed == "Transcription failed."
\* str(e) of an exception raised by a library call
Exc(name) == [type |-> name]
ExcStr(e) == "exception " \o e.type

(* ------------------------------ responses ----------------------------- *)
NoResponse == [status |-> 0, mimetype |-> "", shape |-> "none", msg |-> "", summary |-> "", body |-> None]
\* func.HttpResponse(json.dumps({"error": msg}), status_code=s, mimetype="application/json")
JsonError(s, m) == [status |-> s, mimetype |-> "application/json", shape |-> "error", msg |-> m, summary |-> "", body |-> None]
\* func.HttpResponse(text, status_code=s): a plain-text body
PlainText(s, m) == [status |-> s, mimetype |-> "text/plain", shape |-> "text", msg |-> m, summary |-> "", body |-> None]

(* -------------------------------- state ------------------------------- *)
VARIABLES
  env,        \* environment variables that are set in the deployment
  ffmpeg,     \* api/bin holds ffmpeg.exe and ffprobe.exe
  pollCap,    \* status polls explored per request (a bound of the exploration, fixed by Init)
  blobs,      \* container 'audio-files': blob name -> request whose audio it holds (0: none)
  uuids,      \* uuid4 values handed out so far
  request,    \* per request: the handler serving it and the uploaded file
  pc,         \* per request: position in the handler
  local,      \* per request: the handler's local variables
  calls,      \* per request: network calls issued so far
  hist,       \* per request: what the remote services answered
  response    \* per request: the HTTP response returned

vars == <<env, ffmpeg, pollCap, blobs, uuids, request, pc, local, calls, hist, response>>

InitLocal == [blob_name |-> "", poll_count |-> 0, transcription_result |-> None, summary |-> "", idx |-> 0]
InitCalls == [upload |-> 0, submit |-> 0, status |-> 0, manifest |-> 0, content |-> 0, summary |-> 0, keyphrase |-> 0]
InitHist == [elapsed |-> 0, lastPollAt |-> 0, prevPollAt |-> 0, nonTerminal |-> 0, fetched |-> None, failed |-> "no", exhausted |-> FALSE,
             succeeded |-> FALSE, rejected |-> FALSE, enrichFailed |-> "no",
             submit |-> 0, retrieval |-> [hop |-> "", exc |-> ""]]
NoRequest == [handler |-> "", file |-> NoFile]

InitWith(n, cap) ==
  /\ env \in Environments
  /\ ffmpeg \in BOOLEAN
  /\ pollCap = cap
  /\ blobs = [b \in BlobNames |-> 0]
  /\ uuids = {}
  /\ request = [r \in Reqs |-> NoRequest]
  /\ pc = [r \in Reqs |-> IF r <= n THEN "idle" ELSE "absent"]
  /\ local = [r \in Reqs |-> InitLocal]
  /\ calls = [r \in Reqs |-> InitCalls]
  /\ hist = [r \in Reqs |-> InitHist]
  /\ response = [r \in Reqs |-> NoResponse]

\* one request, followed through its whole life
Init == InitWith(1, MaxPolls)
\* NReq overlapping requests
InitConc == InitWith(NReq, MaxPollsConc)

\* the handler returns: its locals go away, the response stays
Return(r, resp) ==
  /\ response' = [response EXCEPT ![r] = resp]
  /\ pc' = [pc EXCEPT ![r] = "done"]
  /\ local' = [local EXCEPT ![r] = InitLocal]

Count(r, what) == calls' = [calls EXCEPT ![r][what] = @ + 1]

\* the platform hands a POST to one of the two handlers
Arrive(r) ==
  /\ pc[r] = "idle"
  /\ \E h \in Handlers, f \in Files :
       request' = [request EXCEPT ![r] = [handler |-> h, file |-> f]]
  /\ pc' = [pc EXCEPT ![r] = "start"]
  /\ UNCHANGED <<env, ffmpeg, pollCap, blobs, uuids, local, calls, hist, response>>

(* ===================== api/function_app.py ============================ *)

F_NoFileResponse_Mutant == JsonError(500, MsgNoFile)
\* line 58: if not file: return 400 {"error": ...}
F_NoFileResponse == JsonError(400, MsgNoFile)

\* lines 29-67: environment, FFmpeg, the file field, the normaliser (all local)
F_Prepare(r) ==
  /\ pc[r] = "start" /\ request[r].handler = "function_app"
  /\ UNCHANGED <<env, ffmpeg, pollCap, blobs, uuids, request, calls>>
  /\ IF env # EnvVars
       THEN Return(r, JsonError(500, MsgConfig)) /\ UNCHANGED hist
     ELSE IF ~ffmpeg
       THEN Return(r, JsonError(500, MsgFfmpeg)) /\ UNCHANGED hist
     ELSE IF ~request[r].file.present
       THEN Return(r, F_NoFileResponse) /\ UNCHANGED hist
     ELSE IF ~request[r].file.decodable
       THEN /\ Return(r, JsonError(400, MsgAudio))
            /\ hist' = [hist EXCEPT ![r].rejected = TRUE]
     ELSE /\ pc' = [pc EXCEPT ![r] = "upload"]
          /\ UNCHANGED <<local, response, hist>>

\* lines 71-77: storage client, uuid blob name, upload_blob(overwrite=True), SAS
UploadOutcomes == {"client_raises", "upload_raises", "sas_raises", "ok"}
\* line 72: blob_name = f"{uuid.uuid4()}.wav", a value never handed out before
F_BlobNames(r) == UUIDs \ uuids
F_UploadBlob(r) ==
  /\ pc[r] = "upload" /\ request[r].handler = "function_app"
  /\ UNCHANGED <<env, ffmpeg, pollCap, request>>
  /\ \E o \in UploadOutcomes :
       IF o = "client_raises"
         THEN /\ Return(r, JsonError(500, ExcStr(Exc("ValueError"))))
              /\ UNCHANGED <<blobs, uuids, calls, hist>>
       ELSE \E u \in F_BlobNames(r) :
         /\ uuids' = uuids \cup {u}
         /\ Count(r, "upload")
         /\ IF o = "upload_raises"
              THEN /\ Return(r, JsonError(500, ExcStr(Exc("HttpResponseError"))))
                   /\ UNCHANGED <<blobs, hist>>
            ELSE /\ blobs' = [blobs EXCEPT ![u] = r]
                 /\ IF o = "sas_raises"
                      THEN /\ Return(r, JsonError(500, ExcStr(Exc("ValueError"))))
                           /\ UNCHANGED hist
                    ELSE /\ pc' = [pc EXCEPT ![r] = "submit"]
                         /\ local' = [local EXCEPT ![r].blob_name = u]
                         /\ hist' = [hist EXCEPT ![r].elapsed = 0]
                         /\ UNCHANGED response

\* what POST /transcriptions can answer: the call raises, or a status code
\* with or without a Location header
SubmitResponses ==
  {[raises |-> TRUE, code |-> 0, location |-> FALSE]}
  \cup {[raises |-> FALSE, code |-> c, location |-> l] : c \in {201, 202, 400}, l \in BOOLEAN}

F_Created_Mutant(status_code) == status_code \in 200..299
\* line 84: if response.status_code != 201: raise
F_Created(status_code) == status_code = 201

\* lines 79-86: POST /transcriptions
F_Submit(r) ==
  /\ pc[r] = "submit" /\ request[r].handler = "function_app"
  /\ UNCHANGED <<env, ffmpeg, pollCap, blobs, uuids, request>>
  /\ Count(r, "submit")
  /\ \E s \in SubmitResponses :
       /\ hist' = [hist EXCEPT ![r].submit = s.code]
       /\ IF s.raises
            THEN Return(r, JsonError(500, ExcStr(Exc("ConnectionError"))))
          ELSE IF ~F_Created(s.code)
            THEN Return(r, JsonError(500, MsgSpeechApi))
          ELSE IF ~s.location
            THEN Return(r, JsonError(500, ExcStr(Exc("KeyError"))))
          ELSE /\ pc' = [pc EXCEPT ![r] = "poll"]
               /\ local' = [local EXCEPT ![r].poll_count = 0]
               /\ UNCHANGED response

\* what GET <transcription_url> can answer
StatusResponses ==
  {[kind |-> "raises", status |-> "", links |-> FALSE, error |-> FALSE],
   [kind |-> "notjson", status |-> "", links |-> FALSE, error |-> FALSE]}
  \cup {[kind |-> "json", status |-> s, links |-> FALSE, error |-> FALSE] : s \in {"absent", "NotStarted", "Running"}}
  \cup {[kind |-> "json", status |-> "Succeeded", links |-> l, error |-> FALSE] : l \in BOOLEAN}
  \cup {[kind |-> "json", status |-> "Failed", links |-> FALSE, error |-> e] : e \in BOOLEAN}

\* line 135: while poll_count < 30
F_LoopContinues(poll_count) == poll_count < maxPollCount
\* line 88: if not transcription_result
F_NoResult(v) == ~Truthy(v)
\* lines 88, 90-92: raise Exception("STT ... timed out or failed"), answered as 500
F_NoResultResponse == JsonError(500, MsgSttTimeoutOrFailed)
F_FailedResponse_Mutant ==
  [status |-> 200, mimetype |-> "application/json; charset=utf-8", shape |-> "transcript",
   msg |-> "", summary |-> "", body |-> None]
\* lines 147-148: status 'Failed' -> return None (data['properties'] is never read)
F_FailedResponse == F_NoResultResponse
\* line 150: the loop ran out -> return None
F_TimeoutResponse == F_NoResultResponse

\* what a status answer s adds to the record of the remote job: the time of
\* this poll and of the one before, and the job state it reported
StatusHist(h, at, s) ==
  [h EXCEPT !.prevPollAt = h.lastPollAt,
            !.lastPollAt = at,
            !.succeeded = @ \/ (s.kind = "json" /\ s.status = "Succeeded"),
            !.failed = IF s.kind = "json" /\ s.status = "Failed"
                         THEN (IF s.error THEN "detail" ELSE "nodetail") ELSE @,
            !.nonTerminal = IF s.kind = "json" /\ s.status \notin {"Succeeded", "Failed"}
                              THEN @ + 1 ELSE @]

\* line 136: time.sleep(10)
F_Slept(elapsed) == elapsed + pollIntervalSeconds
\* line 141: if status == 'Succeeded'
F_IsSucceeded(status) == status = "Succeeded"
F_IsFailed_Mutant(status) == FALSE
\* line 147: elif status == 'Failed'
F_IsFailed(status) == status = "Failed"

\* lines 135-141, 147-150 (one iteration): sleep, GET status, branch
F_Poll(r) ==
  /\ pc[r] = "poll" /\ request[r].handler = "function_app"
  /\ F_LoopContinues(local[r].poll_count)
  /\ calls[r].status < pollCap
  /\ UNCHANGED <<env, ffmpeg, pollCap, blobs, uuids, request>>
  /\ Count(r, "status")
  /\ \E s \in StatusResponses :
       LET slept == F_Slept(hist[r].elapsed)
           h == StatusHist([hist[r] EXCEPT !.elapsed = slept], slept, s)
       IN IF s.kind = "raises"
            THEN /\ Return(r, JsonError(500, ExcStr(Exc("ConnectionError"))))
                 /\ hist' = [hist EXCEPT ![r] = h]
          ELSE IF s.kind = "notjson"
            THEN /\ Return(r, JsonError(500, ExcStr(Exc("JSONDecodeError"))))
                 /\ hist' = [hist EXCEPT ![r] = h]
          ELSE IF F_IsSucceeded(s.status)
            THEN /\ hist' = [hist EXCEPT ![r] = h]
                 /\ IF s.links
                      THEN pc' = [pc EXCEPT ![r] = "manifest"] /\ UNCHANGED <<local, response>>
                      ELSE Return(r, JsonError(500, ExcStr(Exc("KeyError"))))
          ELSE IF F_IsFailed(s.status)
            THEN /\ hist' = [hist EXCEPT ![r] = h]
                 /\ Return(r, F_FailedResponse)
          ELSE IF F_LoopContinues(local[r].poll_count + 1)
            THEN /\ local' = [local EXCEPT ![r].poll_count = @ + 1]
                 /\ hist' = [hist EXCEPT ![r] = h]
                 /\ UNCHANGED <<pc, response>>
          ELSE /\ hist' = [hist EXCEPT ![r] = [h EXCEPT !.exhausted = TRUE]]
               /\ Return(r, F_TimeoutResponse)

\* lines 142-144: GET the file manifest, take values[0].links.contentUrl
ManifestOutcomes == {"raises", "notjson", "malformed", "empty", "ok"}
\* the exception each failing manifest outcome raises: requests.get, .json(),
\* ['values'] / ['links']['contentUrl'], ['values'][0] on an empty list
ManifestException(o) ==
  CASE o = "raises" -> "ConnectionError"
    [] o = "notjson" -> "JSONDecodeError"
    [] o = "malformed" -> "KeyError"
    [] o = "empty" -> "IndexError"
ContentExceptions == {"ConnectionError", "JSONDecodeError"}
\* a hop after 'Succeeded' failed with exception e
RetrievalFailed(r, hop, e) == hist' = [hist EXCEPT ![r].retrieval = [hop |-> hop, exc |-> e]]

F_RetrievalError_Mutant(e) == JsonError(500, MsgSttTimeoutOrFailed)
\* lines 142-146, 90-92: an exception inside poll_for_stt_result is not caught
\* there; it reaches the caller's except and is answered 500 with str(e)
F_RetrievalError(e) == JsonError(500, ExcStr(Exc(e)))

F_FetchManifest(r) ==
  /\ pc[r] = "manifest" /\ request[r].handler = "function_app"
  /\ UNCHANGED <<env, ffmpeg, pollCap, blobs, uuids, request>>
  /\ Count(r, "manifest")
  /\ \E o \in ManifestOutcomes :
       IF o = "ok"
         THEN pc' = [pc EXCEPT ![r] = "content"] /\ UNCHANGED <<local, response, hist>>
         ELSE /\ Return(r, F_RetrievalError(ManifestException(o)))
              /\ RetrievalFailed(r, "manifest", ManifestException(o))

\* lines 145-146, 87-88: GET the content URL, return its JSON; the caller's check
F_FetchContent(r) ==
  /\ pc[r] = "content" /\ request[r].handler = "function_app"
  /\ UNCHANGED <<env, ffmpeg, pollCap, blobs, uuids, request>>
  /\ Count(r, "content")
  /\ \/ \E e \in ContentExceptions :
          Return(r, F_RetrievalError(e)) /\ RetrievalFailed(r, "content", e)
     \/ \E b \in Bodies :
          /\ hist' = [hist EXCEPT ![r].fetched = b]
          /\ IF F_NoResult(b)
               THEN Return(r, F_NoResultResponse)
               ELSE /\ pc' = [pc EXCEPT ![r] = "enrich"]
                    /\ local' = [local EXCEPT ![r].transcription_result = b]
                    /\ UNCHANGED response

\* line 129: the except branch answers 200 with transcription_result as it is now
F_TranscriptOnly(tr) ==
  [status |-> 200, mimetype |-> "application/json; charset=utf-8", shape |-> "transcript",
   msg |-> "", summary |-> "", body |-> tr]
\* lines 120-124: {"summary": summary, "recognizedPhrases": phrases}
F_FinalResponse(summary, ps) ==
  [status |-> 200, mimetype |-> "application/json; charset=utf-8", shape |-> "enriched",
   msg |-> "", summary |-> summary,
   body |-> [kind |-> "object", other |-> FALSE, hasPhrases |-> TRUE, phrases |-> ps]]

\* line 115/117: phrase["key_phrases"] = ...; phrase is an element of
\* transcription_result["recognizedPhrases"], so the transcript itself changes
F_SetKeyPhrases(tr, i, v) == [tr EXCEPT !.phrases[i].key_phrases = v]

\* lines 111-117: run the loop from phrase i up to the next phrase that needs a
\* key-phrase call; phrases without text get key_phrases = [] on the way
RECURSIVE F_AdvanceLoop(_, _)
F_AdvanceLoop(tr, i) ==
  IF i > Len(tr.phrases) \/ HasText(tr.phrases[i])
    THEN [tr |-> tr, idx |-> i]
    ELSE F_AdvanceLoop(F_SetKeyPhrases(tr, i, "none"), i + 1)

\* lines 126-129: except Exception as lang_e
F_Degrade(r, why) ==
  /\ Return(r, F_TranscriptOnly(local[r].transcription_result))
  /\ hist' = [hist EXCEPT ![r].enrichFailed = why]

\* lines 96-103 (and 111-124 when no phrase has text): client, phrases, full text
F_EnrichBegin(r) ==
  /\ pc[r] = "enrich" /\ request[r].handler = "function_app"
  /\ UNCHANGED <<env, ffmpeg, pollCap, blobs, uuids, request, calls>>
  /\ \E clientOk \in BOOLEAN :
       LET tr == local[r].transcription_result
           ps == tr.phrases
       IN IF ~clientOk
            THEN F_Degrade(r, "client")
          ELSE IF \E i \in 1..Len(ps) : DisplayRaises(ps[i])
            THEN F_Degrade(r, "text")
          ELSE IF \E i \in 1..Len(ps) : HasText(ps[i])
            THEN /\ pc' = [pc EXCEPT ![r] = "summary"]
                 /\ UNCHANGED <<local, response, hist>>
          ELSE /\ Return(r, F_FinalResponse("", F_AdvanceLoop(tr, 1).tr.phrases))
               /\ UNCHANGED hist

EnrichOutcomes == {"raises", "is_error", "ok"}

\* lines 104-108, then the loop up to its first call
F_Summary(r) ==
  /\ pc[r] = "summary" /\ request[r].handler = "function_app"
  /\ UNCHANGED <<env, ffmpeg, pollCap, blobs, uuids, request>>
  /\ Count(r, "summary")
  /\ \E o \in EnrichOutcomes :
       IF o = "raises"
         THEN F_Degrade(r, "summary")
         ELSE LET adv == F_AdvanceLoop(local[r].transcription_result, 1)
              IN /\ local' = [local EXCEPT ![r].summary = IF o = "ok" THEN "summary" ELSE "",
                                           ![r].transcription_result = adv.tr,
                                           ![r].idx = adv.idx]
                 /\ pc' = [pc EXCEPT ![r] = "keyphrases"]
                 /\ UNCHANGED <<response, hist>>

\* lines 114-115 for the phrase at idx, then the loop up to its next call, or 120-124
F_KeyPhrases(r) ==
  /\ pc[r] = "keyphrases" /\ request[r].handler = "function_app"
  /\ UNCHANGED <<env, ffmpeg, pollCap, blobs, uuids, request>>
  /\ Count(r, "keyphrase")
  /\ \E o \in EnrichOutcomes :
       IF o = "raises"
         THEN F_Degrade(r, "keyphrase")
         ELSE LET set == F_SetKeyPhrases(local[r].transcription_result, local[r].idx,
                                         IF o = "ok" THEN "kp" ELSE "none")
                  adv == F_AdvanceLoop(set, local[r].idx + 1)
              IN /\ UNCHANGED hist
                 /\ IF adv.idx > Len(adv.tr.phrases)
                      THEN Return(r, F_FinalResponse(local[r].summary, adv.tr.phrases))
                      ELSE /\ local' = [local EXCEPT ![r].transcription_result = adv.tr,
                                                     ![r].idx = adv.idx]
                           /\ UNCHANGED <<pc, response>>

(* =========================== api/app.py =============================== *)

\* str(e) inside f"Error: {str(e)}"
A_Error(e) == PlainText(500, "Error: " \o ExcStr(Exc(e)))

\* line 18: "No file uploaded.", 400
A_NoFileResponse == PlainText(400, A_MsgNoFile)

\* lines 16-18
A_Intake(r) ==
  /\ pc[r] = "start" /\ request[r].handler = "app"
  /\ UNCHANGED <<env, ffmpeg, pollCap, blobs, uuids, request, calls, hist>>
  /\ IF ~request[r].file.present
       THEN Return(r, A_NoFileResponse)
       ELSE pc' = [pc EXCEPT ![r] = "upload"] /\ UNCHANGED <<local, response>>

\* line 24: the blob is named by the client's filename
A_BlobName(r) == request[r].file.filename

\* lines 21-31: connection string, upload_blob(overwrite=True) of the raw bytes, SAS
A_UploadBlob(r) ==
  /\ pc[r] = "upload" /\ request[r].handler = "app"
  /\ UNCHANGED <<env, ffmpeg, pollCap, uuids, request>>
  /\ IF "STORAGE_CONNECTION_STRING" \notin env
       THEN Return(r, A_Error("KeyError")) /\ UNCHANGED <<blobs, calls, hist>>
       ELSE \E o \in UploadOutcomes :
         IF o = "client_raises"
           THEN Return(r, A_Error("ValueError")) /\ UNCHANGED <<blobs, calls, hist>>
           ELSE /\ Count(r, "upload")
                /\ IF o = "upload_raises"
                     THEN Return(r, A_Error("HttpResponseError")) /\ UNCHANGED <<blobs, hist>>
                     ELSE /\ blobs' = [blobs EXCEPT ![A_BlobName(r)] = r]
                          /\ IF o = "sas_raises"
                               THEN Return(r, A_Error("AttributeError")) /\ UNCHANGED hist
                               ELSE /\ pc' = [pc EXCEPT ![r] = "submit"]
                                    /\ local' = [local EXCEPT ![r].blob_name = A_BlobName(r)]
                                    /\ hist' = [hist EXCEPT ![r].elapsed = 0]
                                    /\ UNCHANGED response

\* line 48: if response.status_code != 201
A_Created(status_code) == status_code = 201

\* lines 34-51
A_Submit(r) ==
  /\ pc[r] = "submit" /\ request[r].handler = "app"
  /\ UNCHANGED <<env, ffmpeg, pollCap, blobs, uuids, request>>
  /\ IF ~({"SPEECH_KEY", "SPEECH_REGION"} \subseteq env)
       THEN Return(r, A_Error("KeyError")) /\ UNCHANGED <<calls, hist>>
       ELSE /\ Count(r, "submit")
            /\ \E s \in SubmitResponses :
                 /\ hist' = [hist EXCEPT ![r].submit = s.code]
                 /\ IF s.raises
                      THEN Return(r, A_Error("ConnectionError"))
                    ELSE IF ~A_Created(s.code)
                      THEN Return(r, PlainText(500, A_MsgTranscriptionError))
                    ELSE IF ~s.location
                      THEN Return(r, A_Error("KeyError"))
                    ELSE pc' = [pc EXCEPT ![r] = "poll"] /\ UNCHANGED <<local, response>>

\* lines 63-64: status 'Failed' -> "Transcription failed."
A_FailedResponse == PlainText(500, A_MsgFailed)

\* line 53: while True
A_LoopContinues(polls) == TRUE

\* line 65: time.sleep(10)
A_Slept(elapsed) == elapsed + pollIntervalSeconds
\* line 56: if status == 'Succeeded'
A_IsSucceeded(status) == status = "Succeeded"
\* line 63: elif status == 'Failed'
A_IsFailed(status) == status = "Failed"

\* lines 53-57, 63-65 (one iteration): GET status, branch, sleep
A_Poll(r) ==
  /\ pc[r] = "poll" /\ request[r].handler = "app"
  /\ A_LoopContinues(calls[r].status)
  /\ calls[r].status < pollCap
  /\ UNCHANGED <<env, ffmpeg, pollCap, blobs, uuids, request>>
  /\ Count(r, "status")
  /\ \E s \in StatusResponses :
       LET h == StatusHist(hist[r], hist[r].elapsed, s)
       IN IF s.kind = "raises"
            THEN Return(r, A_Error("ConnectionError")) /\ hist' = [hist EXCEPT ![r] = h]
          ELSE IF s.kind = "notjson"
            THEN Return(r, A_Error("JSONDecodeError")) /\ hist' = [hist EXCEPT ![r] = h]
          ELSE IF s.status = "absent"
            THEN Return(r, A_Error("KeyError")) /\ hist' = [hist EXCEPT ![r] = h]
          ELSE IF A_IsSucceeded(s.status)
            THEN /\ hist' = [hist EXCEPT ![r] = h]
                 /\ IF s.links
                      THEN pc' = [pc EXCEPT ![r] = "manifest"] /\ UNCHANGED <<local, response>>
                      ELSE Return(r, A_Error("KeyError"))
          ELSE IF A_IsFailed(s.status)
            THEN /\ hist' = [hist EXCEPT ![r] = h]
                 /\ Return(r, A_FailedResponse)
          ELSE /\ hist' = [hist EXCEPT ![r] = [h EXCEPT !.elapsed = A_Slept(@)]]
               /\ UNCHANGED <<pc, local, response>>

\* lines 57-59
A_FetchManifest(r) ==
  /\ pc[r] = "manifest" /\ request[r].handler = "app"
  /\ UNCHANGED <<env, ffmpeg, pollCap, blobs, uuids, request>>
  /\ Count(r, "manifest")
  /\ \E o \in ManifestOutcomes :
       IF o = "ok"
         THEN pc' = [pc EXCEPT ![r] = "content"] /\ UNCHANGED <<local, response, hist>>
         ELSE /\ Return(r, A_Error(ManifestException(o)))
              /\ RetrievalFailed(r, "manifest", ManifestException(o))

\* line 62: {"transcription": transcription}
A_Success(b) ==
  [status |-> 200, mimetype |-> "application/json", shape |-> "wrapped",
   msg |-> "", summary |-> "", body |-> b]

\* lines 60-62
A_FetchContent(r) ==
  /\ pc[r] = "content" /\ request[r].handler = "app"
  /\ UNCHANGED <<env, ffmpeg, pollCap, blobs, uuids, request>>
  /\ Count(r, "content")
  /\ \/ \E e \in ContentExceptions :
          Return(r, A_Error(e)) /\ RetrievalFailed(r, "content", e)
     \/ \E b \in Bodies :
          /\ hist' = [hist EXCEPT ![r].fetched = b]
          /\ Return(r, A_Success(b))

Next ==
  \E r \in Reqs :
    \/ Arrive(r)
    \/ F_Prepare(r)
    \/ F_UploadBlob(r)
    \/ F_Submit(r)
    \/ F_Poll(r)
    \/ F_FetchManifest(r)
    \/ F_FetchContent(r)
    \/ F_EnrichBegin(r)
    \/ F_Summary(r)
    \/ F_KeyPhrases(r)
    \/ A_Intake(r)
    \/ A_UploadBlob(r)
    \/ A_Submit(r)
    \/ A_Poll(r)
    \/ A_FetchManifest(r)
    \/ A_FetchContent(r)

Spec == Init /\ [][Next]_vars
SpecConc == InitConc /\ [][Next]_vars

(* ============================== claims ================================ *)
Done(r) == pc[r] = "done"
NoCalls(r) == calls[r] = InitCalls
NoBlobOf(r) == \A b \in BlobNames : blobs[b] # r

\* C1: the poll loop stops after maxPollCount status responses: a request that
\* has issued maxPollCount status polls is no longer polling and never issues
\* another, and if none of its polls got a terminal status or an error it has
\* ended with a 500.
C1_PollLoopTerminates ==
  \A r \in Reqs :
    calls[r].status >= maxPollCount =>
      /\ pc[r] # "poll"
      /\ calls[r].status = maxPollCount
      /\ (~hist[r].succeeded /\ hist[r].failed = "no") => (Done(r) /\ response[r].status = 500)

\* C2: when enrichment fails after a successful transcription, the response is
\* 200 and its body is the transcript exactly as it was fetched.
C2_DegradedIsUnmodified ==
  \A r \in Reqs :
    (Done(r) /\ hist[r].enrichFailed # "no") =>
      /\ response[r].status = 200
      /\ response[r].shape = "transcript"
      /\ response[r].body = hist[r].fetched

\* the deployment is complete, so a handler's normaliser is what decides on the file
Deployed == env = EnvVars /\ ffmpeg
\* the upload is one the normaliser rejects
Undecodable(r) == request[r].file.present /\ ~request[r].file.decodable

\* C3: an upload the normaliser rejects ends with 400, and the request uploads
\* no blob and makes no network call, before or after.
C3_RejectedMakesNoCall ==
  \A r \in Reqs :
    (Deployed /\ Undecodable(r)) =>
      /\ NoCalls(r) /\ NoBlobOf(r)
      /\ Done(r) => response[r].status = 400

\* the response the handler serving r gives when the remote job reports Failed
FailedResponse(r) ==
  IF request[r].handler = "function_app" THEN F_FailedResponse ELSE A_FailedResponse

\* C4: a request whose poll bound ran out ends with a 500 that differs from the
\* response given when the remote job reports Failed.
C4_TimeoutIsDistinct ==
  \A r \in Reqs :
    (Done(r) /\ hist[r].exhausted) =>
      /\ response[r].status = 500
      /\ response[r] # FailedResponse(r)

\* C5: once the content URL has answered with a JSON object, whatever it holds,
\* the transcript handed on is that object and the request is a success.
C5_TranscriptPassedThrough ==
  \A r \in Reqs :
    hist[r].fetched.kind = "object" =>
      /\ pc[r] = "enrich" => local[r].transcription_result = hist[r].fetched
      /\ Done(r) => response[r].status = 200

\* the error detail a Failed status response carries in properties.error
RemoteErrorDetail == "<properties.error.message>"

\* C6: after a Failed status the request ends with 500, and the message is the
\* remote error detail when the status response carried one.
C6_FailedSurfacesDetail ==
  \A r \in Reqs :
    (Done(r) /\ hist[r].failed # "no") =>
      /\ response[r].status = 500
      /\ hist[r].failed = "detail" => response[r].msg = RemoteErrorDetail

\* C7: while a request holds a blob name, the blob under that name holds that
\* request's audio, and no other request holds the same name.
C7_OwnBlob ==
  \A r \in Reqs :
    local[r].blob_name # "" =>
      /\ blobs[local[r].blob_name] = r
      /\ \A q \in Reqs \ {r} : local[q].blob_name # local[r].blob_name

\* C8: the signed URL outlives the polling window, and every status poll is
\* issued before the URL expires.
C8_UrlOutlivesPolling ==
  /\ sasExpirySeconds > pollIntervalSeconds * maxPollCount
  /\ \A r \in Reqs : calls[r].status > 0 => hist[r].lastPollAt < sasExpirySeconds

\* C9 as stated: a request without a 'file' field ends with 400 and makes no call.
C9_NoFileIs400 ==
  \A r \in Reqs :
    (pc[r] \notin {"idle", "absent"} /\ ~request[r].file.present) =>
      /\ NoCalls(r) /\ NoBlobOf(r)
      /\ Done(r) => response[r].status = 400

\* the handler serving r gets as far as looking at the file field
ReachesFileCheck(r) == request[r].handler = "app" \/ Deployed

\* C9 (amended): a request without a 'file' field makes no blob upload and no
\* network call; it ends with 400 when the handler reaches the file check
\* (app.py always, function_app.py when the environment and FFmpeg are in
\* place) and with function_app.py's 500 configuration error otherwise.
C9_NoFileRejected ==
  \A r \in Reqs :
    (pc[r] \notin {"idle", "absent"} /\ ~request[r].file.present) =>
      /\ NoCalls(r) /\ NoBlobOf(r)
      /\ Done(r) => response[r].status = IF ReachesFileCheck(r) THEN 400 ELSE 500

C9_Witness ==
  \E r \in Reqs : /\ Done(r) /\ ~request[r].file.present
                  /\ request[r].handler = "function_app" /\ response[r].status = 400

\* C10: every response that is not a success is JSON {"error": message} with
\* status 400 or 500.
C10_ErrorsAreJson ==
  \A r \in Reqs :
    (Done(r) /\ response[r].status # 200) =>
      /\ response[r].status \in {400, 500}
      /\ response[r].shape = "error"
      /\ response[r].mimetype = "application/json"

\* C11: when the job creation call answers a status other than 201, the request
\* ends with 500, the creation call was issued once, and no status poll,
\* manifest fetch, content fetch or enrichment call is made.
C11_RejectedSubmissionIsFinal ==
  \A r \in Reqs :
    hist[r].submit \notin {0, 201} =>
      /\ Done(r) /\ response[r].status = 500
      /\ calls[r].submit = 1
      /\ calls[r].status = 0 /\ calls[r].manifest = 0 /\ calls[r].content = 0
      /\ calls[r].summary = 0 /\ calls[r].keyphrase = 0

C11_Witness ==
  \E r \in Reqs : /\ hist[r].submit = 202 /\ Done(r) /\ response[r].status = 500
                  /\ request[r].handler = "function_app" /\ calls[r].submit = 1

\* the text of exception e as the handler serving r puts it in a response
ExceptionText(r, e) ==
  IF request[r].handler = "function_app" THEN ExcStr(Exc(e)) ELSE "Error: " \o ExcStr(Exc(e))

CarriesTranscript(r) ==
  LET b == response[r].body
      t == hist[r].fetched
  IN /\ response[r].status = 200
     /\ Len(b.phrases) = Len(t.phrases)
     /\ \A i \in 1..Len(t.phrases) : b.phrases[i].nBest = t.phrases[i].nBest

\* C13: between two consecutive status polls of a request the poller sleeps
\* exactly one interval of 10 seconds; only a non-terminal status answer leads
\* to another poll; and when two non-terminal answers are followed by
\* Succeeded, the request has issued exactly three status polls and, its
\* manifest and content fetched, ends with a 200 that carries the transcript.
C13_PollingScenario ==
  \A r \in Reqs :
    /\ calls[r].status >= 2 => hist[r].lastPollAt - hist[r].prevPollAt = pollIntervalSeconds
    /\ calls[r].status <= hist[r].nonTerminal + 1
    /\ (hist[r].succeeded /\ hist[r].nonTerminal = 2) =>
         /\ calls[r].status = 3
         /\ (Done(r) /\ hist[r].fetched.kind = "object") => CarriesTranscript(r)

\* a status poll of r has returned Succeeded or Failed
Terminal(r) == hist[r].succeeded \/ hist[r].failed # "no"

\* C14: once a status poll of a request has returned Succeeded or Failed the
\* request issues no further status poll; the manifest fetch and the content
\* fetch are each issued at most once, only after a Succeeded status, the
\* manifest fetch before the content fetch.
C14_TerminalIsFinal ==
  [][\A r \in Reqs :
       /\ Terminal(r) => calls'[r].status = calls[r].status
       /\ calls'[r].manifest # calls[r].manifest =>
            /\ hist[r].succeeded /\ calls[r].status >= 1
            /\ calls[r].manifest = 0 /\ calls'[r].manifest = 1 /\ calls[r].content = 0
       /\ calls'[r].content # calls[r].content =>
            /\ hist[r].succeeded /\ calls[r].manifest = 1
            /\ calls[r].content = 0 /\ calls'[r].content = 1]_vars

C14_Witness ==
  \E r \in Reqs : /\ request[r].handler = "function_app" /\ Done(r)
                  /\ hist[r].succeeded /\ hist[r].nonTerminal = 1 /\ calls[r].status = 2
                  /\ calls[r].manifest = 1 /\ calls[r].content = 1

\* the request r has sent its response, with status 200
Returned200(r) == Done(r) /\ response[r].status = 200
\* a step of r that cannot be followed by success has happened: its upload or
\* submission failed, the job reported Failed, or the poll loop ran out
Failure(r) ==
  \/ calls[r].upload >= 1 /\ NoBlobOf(r)
  \/ hist[r].submit \notin {0, 201}
  \/ hist[r].failed # "no"
  \/ hist[r].exhausted

====
